---- MODULE Spec2Model ----
(***************************************************************************)
(* A model of the Whisper transcription daemon (scripts/whisper_daemon.py) *)
(* and of its SSRF URL validator (scripts/url_validator.py).               *)
(*                                                                         *)
(* Two specifications share the module:                                    *)
(*   SpecValidator  validate_url as a pure function of a URL, an allowlist *)
(*                  and the resolver's answer, over bounded input pools;   *)
(*   Spec           the daemon: the protocol loop (run), handle_request,   *)
(*                  transcribe_audio step by step, and the idle-checker    *)
(*                  thread running concurrently with it.                   *)
(*                                                                         *)
(* Text is modelled as sequences of one-character strings wherever the     *)
(* code inspects characters (scheme, host name, port).  IPv4 addresses are *)
(* four octets, IPv6 addresses eight 16-bit groups.  The address           *)
(* predicates are those of CPython's ipaddress module (3.11), which the    *)
(* validator calls.                                                        *)
(***************************************************************************)
EXTENDS Integers, Sequences, FiniteSets, TLC

VARIABLES
    \* ---- validator harness (SpecValidator) ----
    vurl,           \* the URL handed to validate_url
    vallowed,       \* URLValidator.allowed_domains
    vanswer,        \* what the resolver answers when validate_url asks it
    vresult,        \* what validate_url did with it (NoResult before the call)
    \* ---- response-building harness (SpecReshape) ----
    eresult,        \* the result model.transcribe returned
    reshaped,       \* the response built from it (NoReshape before that)
    \* ---- daemon state (Spec) ----
    running,        \* WhisperDaemon.running
    model,          \* WhisperDaemon.model: "loaded", "none", or "deleted"
    shutdown_event, \* WhisperDaemon.shutdown_event
    last_activity,  \* WhisperDaemon.last_activity
    now,            \* the clock, time.time()
    pc,             \* position of the main thread in run()/handle_request
    ipc,            \* position of the idle-checker thread
    wake,           \* time at which the idle checker's sleep ends
    request,        \* the request being handled (NoRequest when none)
    response,       \* the response under construction (NoResponse when none)
    cur,            \* local state of the transcribe_audio call in progress
    linesRead,      \* number of input lines read so far
    written,        \* number of responses written to stdout so far
    output,         \* the responses written since the last line was read
    tempFiles,      \* temp files existing on disk (by number of creating line)
    cleanupErrors,  \* temp files whose failed deletion was logged
    log             \* bookkeeping of what the last handled line caused

vvars == <<vurl, vallowed, vanswer, vresult, eresult, reshaped>>
dvars == <<running, model, shutdown_event, last_activity, now, pc, ipc, wake,
           request, response, cur, linesRead, written, output, tempFiles,
           cleanupErrors, log>>
vars == <<vvars, dvars>>

(***************************************************************************)
(* Text helpers                                                            *)
(***************************************************************************)
LowerChar(c) ==
    CASE c = "H" -> "h" [] c = "T" -> "t" [] c = "P" -> "p" [] c = "S" -> "s"
      [] c = "F" -> "f" [] c = "C" -> "c" [] c = "D" -> "d" [] c = "N" -> "n"
      [] c = "I" -> "i" [] c = "O" -> "o"
      [] OTHER -> c

\* str.lower()
Lower(s) == [i \in 1..Len(s) |-> LowerChar(s[i])]

\* str.endswith(suffix)
EndsWith(s, suffix) ==
    /\ Len(suffix) <= Len(s)
    /\ SubSeq(s, Len(s) - Len(suffix) + 1, Len(s)) = suffix

DigitChars == <<"0", "1", "2", "3", "4", "5", "6", "7", "8", "9">>

IsDigit(c) == \E i \in 1..10 : DigitChars[i] = c

DigitVal(c) == (CHOOSE i \in 1..10 : DigitChars[i] = c) - 1

\* int(text) for a non-empty text of ASCII digits
RECURSIVE IntOf(_)
IntOf(text) ==
    IF Len(text) = 0 THEN 0
    ELSE 10 * IntOf(SubSeq(text, 1, Len(text) - 1)) + DigitVal(text[Len(text)])

\* str(n) for n >= 0 (used to write the port of an input URL)
RECURSIVE Digits(_)
Digits(n) ==
    IF n < 10 THEN <<DigitChars[n + 1]>>
    ELSE Digits(n \div 10) \o <<DigitChars[(n % 10) + 1]>>

Min(a, b) == IF a < b THEN a ELSE b
Max(a, b) == IF a > b THEN a ELSE b

RECURSIVE Pow2(_)
Pow2(n) == IF n = 0 THEN 1 ELSE 2 * Pow2(n - 1)

(***************************************************************************)
(* IP addresses: [v |-> 4, a |-> <<o1,o2,o3,o4>>] or                       *)
(*               [v |-> 6, a |-> <<g1,...,g8>>]                            *)
(***************************************************************************)
V4(a, b, c, d) == [v |-> 4, a |-> <<a, b, c, d>>]
V6(g) == [v |-> 6, a |-> g]

\* ::ffff:a.b.c.d
Mapped(ip) ==
    V6(<<0, 0, 0, 0, 0, 65535, ip.a[1] * 256 + ip.a[2], ip.a[3] * 256 + ip.a[4]>>)

\* "address in network": the first plen bits of addr and net agree
\* (width = bits per element: 8 for IPv4 octets, 16 for IPv6 groups).
InNet(addr, net, plen, width) ==
    \A i \in 1..Len(addr) :
        LET bits == Min(width, Max(0, plen - width * (i - 1)))
            drop == Pow2(width - bits)
        IN  addr[i] \div drop = net[i] \div drop

In4(ip, net, plen) == InNet(ip.a, net, plen, 8)
In6(ip, net, plen) == InNet(ip.a, net, plen, 16)

\* ipaddress._IPv4Constants._private_networks
PrivateNetworks4 ==
    { <<<<0, 0, 0, 0>>, 8>>,        <<<<10, 0, 0, 0>>, 8>>,
      <<<<127, 0, 0, 0>>, 8>>,      <<<<169, 254, 0, 0>>, 16>>,
      <<<<172, 16, 0, 0>>, 12>>,    <<<<192, 0, 0, 0>>, 29>>,
      <<<<192, 0, 0, 170>>, 31>>,   <<<<192, 0, 2, 0>>, 24>>,
      <<<<192, 168, 0, 0>>, 16>>,   <<<<198, 18, 0, 0>>, 15>>,
      <<<<198, 51, 100, 0>>, 24>>,  <<<<203, 0, 113, 0>>, 24>>,
      <<<<240, 0, 0, 0>>, 4>>,      <<<<255, 255, 255, 255>>, 32>> }

\* ipaddress._IPv6Constants._private_networks
PrivateNetworks6 ==
    { <<<<0, 0, 0, 0, 0, 0, 0, 1>>, 128>>,
      <<<<0, 0, 0, 0, 0, 0, 0, 0>>, 128>>,
      <<<<0, 0, 0, 0, 0, 65535, 0, 0>>, 96>>,
      <<<<256, 0, 0, 0, 0, 0, 0, 0>>, 64>>,
      <<<<8193, 0, 0, 0, 0, 0, 0, 0>>, 23>>,
      <<<<8193, 2, 0, 0, 0, 0, 0, 0>>, 48>>,
      <<<<8193, 3512, 0, 0, 0, 0, 0, 0>>, 32>>,
      <<<<8193, 16, 0, 0, 0, 0, 0, 0>>, 28>>,
      <<<<64512, 0, 0, 0, 0, 0, 0, 0>>, 7>>,
      <<<<65152, 0, 0, 0, 0, 0, 0, 0>>, 10>> }

\* The value None of an optional address
NoAddr == [v |-> 0, a |-> <<>>]

\* IPv6Address.ipv4_mapped: None unless the top 96 bits are 0:0:0:0:0:ffff
ipv4_mapped(ip) ==
    IF ip.v = 6 /\ SubSeq(ip.a, 1, 6) = <<0, 0, 0, 0, 0, 65535>>
    THEN V4(ip.a[7] \div 256, ip.a[7] % 256, ip.a[8] \div 256, ip.a[8] % 256)
    ELSE NoAddr

is_loopback(ip) ==
    IF ip.v = 4 THEN In4(ip, <<127, 0, 0, 0>>, 8)
    ELSE ip.a = <<0, 0, 0, 0, 0, 0, 0, 1>>

is_link_local(ip) ==
    IF ip.v = 4 THEN In4(ip, <<169, 254, 0, 0>>, 16)
    ELSE In6(ip, <<65152, 0, 0, 0, 0, 0, 0, 0>>, 10)

is_private(ip) ==
    IF ip.v = 4 THEN \E n \in PrivateNetworks4 : In4(ip, n[1], n[2])
    ELSE IF ipv4_mapped(ip) # NoAddr
         THEN \E n \in PrivateNetworks4 : In4(ipv4_mapped(ip), n[1], n[2])
         ELSE \E n \in PrivateNetworks6 : In6(ip, n[1], n[2])

is_multicast(ip) ==
    IF ip.v = 4 THEN In4(ip, <<224, 0, 0, 0>>, 4)
    ELSE In6(ip, <<65280, 0, 0, 0, 0, 0, 0, 0>>, 8)

is_unspecified(ip) ==
    IF ip.v = 4 THEN ip.a = <<0, 0, 0, 0>>
    ELSE ip.a = <<0, 0, 0, 0, 0, 0, 0, 0>>

(***************************************************************************)
(* URLValidator                                                            *)
(***************************************************************************)
ALLOWED_SCHEMES == { <<"h", "t", "t", "p">>, <<"h", "t", "t", "p", "s">> }

DANGEROUS_PORTS ==
    {22, 23, 25, 53, 110, 143, 993, 995, 1433, 3306, 5432, 6379, 11211, 27017}

SAFE_PORTS == {80, 443, 8080, 8443}

\* Results of validate_url: it returns (accept), raises SSRFError (reject,
\* with the rule named by the message), or lets another exception escape.
\* resolver = number of getaddrinfo calls made; public = the addresses the
\* call classified Public.
Accept(q, pub) ==
    [outcome |-> "accept", kind |-> "Ok", inner |-> "", resolver |-> q,
     public |-> pub]

Reject(kind, inner, q) ==
    [outcome |-> "SSRFError", kind |-> kind, inner |-> inner, resolver |-> q,
     public |-> {}]

Escape(kind) ==
    [outcome |-> "escape", kind |-> kind, inner |-> "", resolver |-> 0,
     public |-> {}]

\* Hosts as written in a URL:
\*   [form |-> "none"]                 no host text
\*   [form |-> "v4", ip |-> V4(..)]    canonical dotted quad
\*   [form |-> "v6", ip |-> V6(..)]    bracketed IPv6 literal
\*   [form |-> "enc4", ip |-> V4(..)]  non-canonical IPv4 text (decimal or
\*                                     hexadecimal integer, short dotted form)
\*   [form |-> "name", chars |-> s]    anything else: a host name
NoHost == [form |-> "none"]
NoPort == [present |-> FALSE, text |-> <<>>]
PortText(t) == [present |-> TRUE, text |-> t]

\* urllib.parse.urlparse: ValueError for an unbalanced or non-IPv6 bracketed
\* host; the scheme comes back lower-cased.
urlparse(url) ==
    IF url.bracket = "bad" THEN [ok |-> FALSE]
    ELSE [ok |-> TRUE, scheme |-> Lower(url.scheme), netloc |-> url.netloc,
          host |-> url.host, port |-> url.port]

\* ParseResult.hostname: None without host text, else lower-cased
hostname_of(parsed) ==
    IF parsed.host.form = "name"
    THEN [parsed.host EXCEPT !.chars = Lower(@)]
    ELSE parsed.host

\* ParseResult.port: None without port text; ValueError unless the text is
\* ASCII digits denoting 0..65535
port_of(parsed) ==
    LET t == parsed.port.text IN
    IF ~parsed.port.present \/ Len(t) = 0 THEN [kind |-> "none", val |-> 0]
    ELSE IF \E i \in 1..Len(t) : ~IsDigit(t[i])
         THEN [kind |-> "ValueError", val |-> 0]
    ELSE IF IntOf(t) > 65535 THEN [kind |-> "ValueError", val |-> 0]
    ELSE [kind |-> "int", val |-> IntOf(t)]

\* A scheme check that would also let ftp through
validate_scheme_with_ftp(scheme) ==
    Lower(scheme) \in ALLOWED_SCHEMES \cup { <<"f", "t", "p">> }

\* TRUE iff _validate_scheme returns without raising
validate_scheme(scheme) == Lower(scheme) \in ALLOWED_SCHEMES

\* A port check that knows the system port range only
validate_port_system_only(port) ==
    IF port.kind = "none" THEN "ok"
    ELSE IF port.val \notin SAFE_PORTS /\ port.val < 1024 THEN "system"
    ELSE "ok"

\* A port check that takes port 0 for no port
validate_port_zero_as_none(port) ==
    IF port.kind = "none" \/ port.val = 0 THEN "ok"
    ELSE IF port.val \in DANGEROUS_PORTS THEN "dangerous"
    ELSE IF port.val \notin SAFE_PORTS /\ port.val \notin {80, 443}
            /\ port.val < 1024
         THEN "system"
    ELSE "ok"

\* "ok", or the reason _validate_port raises
validate_port(port) ==
    IF port.kind = "none" THEN "ok"
    ELSE IF port.val \in DANGEROUS_PORTS THEN "dangerous"
    ELSE IF port.val \notin SAFE_PORTS /\ port.val \notin {80, 443}
            /\ port.val < 1024
         THEN "system"
    ELSE "ok"

\* str(ip) for the two literal addresses the allowlists of the model name
AddressText(ip) ==
    IF ip = V4(127, 0, 0, 1)
    THEN <<"1", "2", "7", ".", "0", ".", "0", ".", "1">>
    ELSE IF ip = V4(8, 8, 8, 8)
    THEN <<"8", ".", "8", ".", "8", ".", "8">>
    ELSE <<"<address>">>

\* The host name as the string the allowlist is matched against.  A name and
\* the literals 127.0.0.1 and 8.8.8.8 are their text; any other literal and
\* an encoded address are one opaque symbol, which no allowlist of the model
\* equals or ends with.
HostText(hostname) ==
    IF hostname.form = "name" THEN hostname.chars
    ELSE IF hostname.form \in {"v4", "v6"} THEN AddressText(hostname.ip)
    ELSE <<"<address>">>

\* An allowlist match on the bare suffix, without the separating dot
validate_domain_allowlist_bare_suffix(hostname, allowed) ==
    \/ ~allowed.configured
    \/ \E d \in allowed.domains : EndsWith(HostText(hostname), d)

\* TRUE iff _validate_domain_allowlist returns without raising
validate_domain_allowlist(hostname, allowed) ==
    \/ ~allowed.configured
    \/ HostText(hostname) \in allowed.domains
    \/ \E d \in allowed.domains : EndsWith(HostText(hostname), <<".">> \o d)

is_ip_address(hostname) == hostname.form \in {"v4", "v6"}

\* A classification that asks for the private ranges first
RECURSIVE validate_ip_address_private_first(_)
validate_ip_address_private_first(ip) ==
    IF is_private(ip) THEN "Private"
    ELSE IF is_loopback(ip) THEN "Loopback"
    ELSE IF is_link_local(ip) THEN "LinkLocal"
    ELSE IF is_multicast(ip) THEN "Multicast"
    ELSE IF is_unspecified(ip) THEN "Unspecified"
    ELSE IF ip.v = 4 /\ ip.a = <<255, 255, 255, 255>> THEN "Broadcast"
    ELSE IF ip.v = 6 /\ ipv4_mapped(ip) # NoAddr
         THEN validate_ip_address_private_first(ipv4_mapped(ip))
    ELSE "Public"

\* "Public" when _validate_ip_address returns, else the rule it raises for
RECURSIVE validate_ip_address(_)
validate_ip_address(ip) ==
    IF is_loopback(ip) THEN "Loopback"
    ELSE IF is_link_local(ip) THEN "LinkLocal"
    ELSE IF is_private(ip) THEN "Private"
    ELSE IF is_multicast(ip) THEN "Multicast"
    ELSE IF is_unspecified(ip) THEN "Unspecified"
    ELSE IF ip.v = 4 /\ ip.a = <<255, 255, 255, 255>> THEN "Broadcast"
    ELSE IF ip.v = 6 /\ ipv4_mapped(ip) # NoAddr
         THEN validate_ip_address(ipv4_mapped(ip))
    ELSE "Public"

\* A resolution check that looks at the first resolved address only
validate_hostname_resolution_first_only(hostname, answer) ==
    IF answer.status # "ok" THEN Reject("ResolutionFailure", answer.status, 1)
    ELSE IF validate_ip_address(answer.addrs[1]) = "Public"
         THEN Accept(1, {answer.addrs[i] : i \in 1..Len(answer.addrs)})
    ELSE Reject("ResolvesToUnsafeAddress",
                validate_ip_address(answer.addrs[1]), 1)

\* Resolver answers (socket.getaddrinfo):
\*   [status |-> "ok", addrs |-> s]   s lists the distinct addresses in the
\*                                    order the set resolved_ips is iterated
\*   [status |-> "gaierror"]          the lookup failed
\*   [status |-> "error"]             another exception (e.g. UnicodeError)
validate_hostname_resolution(hostname, answer) ==
    IF answer.status = "gaierror" THEN Reject("ResolutionFailure", "gaierror", 1)
    ELSE IF answer.status = "error" THEN Reject("ResolutionFailure", "error", 1)
    ELSE LET bad == {i \in 1..Len(answer.addrs) :
                        validate_ip_address(answer.addrs[i]) # "Public"}
         IN  IF bad = {}
             THEN Accept(1, {answer.addrs[i] : i \in 1..Len(answer.addrs)})
             ELSE LET first == CHOOSE i \in bad : \A j \in bad : i <= j
                  IN  Reject("ResolvesToUnsafeAddress",
                             validate_ip_address(answer.addrs[first]), 1)

\* A validator that looks for the host before it looks at the scheme
validate_url_host_first(url, allowed, answer) ==
    IF url.blank THEN Reject("Malformed", "empty", 0)
    ELSE LET parsed == urlparse(url) IN
    IF ~parsed.ok THEN Reject("Malformed", "parse", 0)
    ELSE IF ~parsed.netloc THEN Reject("Malformed", "missing host", 0)
    ELSE LET hostname == hostname_of(parsed)
             port == port_of(parsed)
         IN
    IF port.kind = "ValueError" THEN Escape("ValueError")
    ELSE IF hostname.form = "none"
         THEN Reject("Malformed", "missing hostname", 0)
    ELSE IF ~validate_scheme(parsed.scheme)
         THEN Reject("SchemeNotAllowed", "", 0)
    ELSE IF validate_port(port) # "ok"
         THEN Reject("PortNotAllowed", validate_port(port), 0)
    ELSE IF allowed.configured /\ ~validate_domain_allowlist(hostname, allowed)
         THEN Reject("NotAllowlisted", "", 0)
    ELSE IF is_ip_address(hostname)
         THEN IF validate_ip_address(hostname.ip) = "Public"
              THEN Accept(0, {hostname.ip})
              ELSE Reject(validate_ip_address(hostname.ip), "", 0)
    ELSE validate_hostname_resolution(hostname, answer)

\* A validator that trusts a host on the allowlist without looking at its
\* address
validate_url_allowlist_trusted(url, allowed, answer) ==
    IF url.blank THEN Reject("Malformed", "empty", 0)
    ELSE LET parsed == urlparse(url) IN
    IF ~parsed.ok THEN Reject("Malformed", "parse", 0)
    ELSE IF ~validate_scheme(parsed.scheme)
         THEN Reject("SchemeNotAllowed", "", 0)
    ELSE IF ~parsed.netloc THEN Reject("Malformed", "missing host", 0)
    ELSE LET hostname == hostname_of(parsed)
             port == port_of(parsed)
         IN
    IF port.kind = "ValueError" THEN Escape("ValueError")
    ELSE IF hostname.form = "none"
         THEN Reject("Malformed", "missing hostname", 0)
    ELSE IF validate_port(port) # "ok"
         THEN Reject("PortNotAllowed", validate_port(port), 0)
    ELSE IF allowed.configured /\ ~validate_domain_allowlist(hostname, allowed)
         THEN Reject("NotAllowlisted", "", 0)
    ELSE IF allowed.configured THEN Accept(0, {})
    ELSE IF is_ip_address(hostname)
         THEN IF validate_ip_address(hostname.ip) = "Public"
              THEN Accept(0, {hostname.ip})
              ELSE Reject(validate_ip_address(hostname.ip), "", 0)
    ELSE validate_hostname_resolution(hostname, answer)

validate_url(url, allowed, answer) ==
    IF url.blank THEN Reject("Malformed", "empty", 0)
    ELSE LET parsed == urlparse(url) IN
    IF ~parsed.ok THEN Reject("Malformed", "parse", 0)
    ELSE IF ~validate_scheme(parsed.scheme)
         THEN Reject("SchemeNotAllowed", "", 0)
    ELSE IF ~parsed.netloc THEN Reject("Malformed", "missing host", 0)
    ELSE LET hostname == hostname_of(parsed)
             port == port_of(parsed)
         IN
    IF port.kind = "ValueError" THEN Escape("ValueError")
    ELSE IF hostname.form = "none"
         THEN Reject("Malformed", "missing hostname", 0)
    ELSE IF validate_port(port) # "ok"
         THEN Reject("PortNotAllowed", validate_port(port), 0)
    ELSE IF allowed.configured /\ ~validate_domain_allowlist(hostname, allowed)
         THEN Reject("NotAllowlisted", "", 0)
    ELSE IF is_ip_address(hostname)
         THEN IF validate_ip_address(hostname.ip) = "Public"
              THEN Accept(0, {hostname.ip})
              ELSE Reject(validate_ip_address(hostname.ip), "", 0)
    ELSE validate_hostname_resolution(hostname, answer)

(***************************************************************************)
(* Input pools                                                             *)
(***************************************************************************)
V4Pool ==
    { V4(0, 0, 0, 0),         V4(0, 1, 2, 3),         V4(1, 1, 1, 1),
      V4(8, 8, 8, 8),         V4(9, 255, 255, 255),   V4(10, 0, 0, 0),
      V4(10, 0, 0, 1),        V4(10, 255, 255, 255),  V4(11, 0, 0, 0),
      V4(100, 64, 0, 1),      V4(126, 255, 255, 255), V4(127, 0, 0, 0),
      V4(127, 0, 0, 1),       V4(127, 255, 255, 255), V4(128, 0, 0, 0),
      V4(169, 253, 255, 255), V4(169, 254, 0, 0),     V4(169, 254, 169, 254),
      V4(169, 254, 255, 255), V4(169, 255, 0, 0),     V4(172, 15, 255, 255),
      V4(172, 16, 0, 0),      V4(172, 16, 0, 1),      V4(172, 31, 255, 255),
      V4(172, 32, 0, 0),      V4(192, 0, 0, 1),       V4(192, 0, 2, 1),
      V4(192, 167, 255, 255), V4(192, 168, 0, 0),     V4(192, 168, 0, 1),
      V4(192, 168, 255, 255), V4(192, 169, 0, 0),     V4(198, 18, 0, 1),
      V4(203, 0, 113, 5),     V4(223, 255, 255, 255), V4(224, 0, 0, 0),
      V4(224, 0, 0, 1),       V4(239, 255, 255, 255), V4(240, 0, 0, 0),
      V4(240, 0, 0, 1),       V4(255, 255, 255, 254), V4(255, 255, 255, 255) }

V6Pool ==
    { V6(<<0, 0, 0, 0, 0, 0, 0, 0>>),              \* ::
      V6(<<0, 0, 0, 0, 0, 0, 0, 1>>),              \* ::1
      V6(<<0, 0, 0, 0, 0, 0, 0, 2>>),              \* ::2
      V6(<<256, 0, 0, 0, 0, 0, 0, 1>>),            \* 100::1
      V6(<<8193, 3512, 0, 0, 0, 0, 0, 1>>),        \* 2001:db8::1
      V6(<<8193, 18528, 18528, 0, 0, 0, 0, 34952>>),   \* 2001:4860:4860::8888
      V6(<<9734, 18176, 18176, 0, 0, 0, 0, 4369>>),    \* 2606:4700:4700::1111
      V6(<<64511, 65535, 0, 0, 0, 0, 0, 1>>),      \* fbff:ffff::1
      V6(<<64512, 0, 0, 0, 0, 0, 0, 1>>),          \* fc00::1
      V6(<<65023, 65535, 0, 0, 0, 0, 0, 1>>),      \* fdff:ffff::1
      V6(<<65024, 0, 0, 0, 0, 0, 0, 1>>),          \* fe00::1
      V6(<<65151, 65535, 0, 0, 0, 0, 0, 1>>),      \* fe7f:ffff::1
      V6(<<65152, 0, 0, 0, 0, 0, 0, 0>>),          \* fe80::
      V6(<<65152, 0, 0, 0, 0, 0, 0, 1>>),          \* fe80::1
      V6(<<65215, 65535, 0, 0, 0, 0, 0, 1>>),      \* febf:ffff::1
      V6(<<65216, 0, 0, 0, 0, 0, 0, 1>>),          \* fec0::1
      V6(<<65279, 65535, 0, 0, 0, 0, 0, 1>>),      \* feff:ffff::1
      V6(<<65280, 0, 0, 0, 0, 0, 0, 0>>),          \* ff00::
      V6(<<65280, 0, 0, 0, 0, 0, 0, 1>>),          \* ff00::1
      V6(<<65282, 0, 0, 0, 0, 0, 0, 1>>),          \* ff02::1
      V6(<<65535, 65535, 65535, 65535, 65535, 65535, 65535, 65535>>) }
    \cup { Mapped(ip) : ip \in V4Pool }

\* host names: cdn.io, a.cdn.io, xcdn.io, CDN.io, evil.io, cdn.io.evil.io
NameCdn == <<"c", "d", "n", ".", "i", "o">>
NameSub == <<"a", ".">> \o NameCdn
NameLookalike == <<"x">> \o NameCdn
NameUpper == <<"C", "D", "N", ".", "i", "o">>
NameEvil == <<"e", "v", "i", "l", ".", "i", "o">>
NameSuffixed == NameCdn \o <<".">> \o NameEvil
NameApi == <<"a", "p", "i", ".", "i", "o">>

NamePool == {NameCdn, NameSub, NameLookalike, NameUpper, NameEvil, NameSuffixed}

Name(chars) == [form |-> "name", chars |-> chars]
Lit(ip) == [form |-> (IF ip.v = 4 THEN "v4" ELSE "v6"), ip |-> ip]
Enc(ip) == [form |-> "enc4", ip |-> ip]

HostPool ==
    {NoHost} \cup { Lit(ip) : ip \in V4Pool \cup V6Pool }
             \cup { Enc(ip) : ip \in {V4(127, 0, 0, 1), V4(8, 8, 8, 8)} }
             \cup { Name(n) : n \in NamePool }

\* a few hosts of every form, combined with every port and scheme
FewHosts ==
    { NoHost, Lit(V4(8, 8, 8, 8)), Lit(V4(127, 0, 0, 1)),
      Lit(V6(<<8193, 18528, 18528, 0, 0, 0, 0, 34952>>)),
      Enc(V4(127, 0, 0, 1)), Name(NameCdn), Name(NameEvil) }

NoAllowlist == [configured |-> FALSE, domains |-> {}]
Allowlist(ds) == [configured |-> TRUE, domains |-> ds]
AllowlistPool ==
    {NoAllowlist, Allowlist({NameCdn}), Allowlist({NameCdn, NameApi}),
     Allowlist({NameUpper}),
     Allowlist({AddressText(V4(127, 0, 0, 1)), AddressText(V4(8, 8, 8, 8))})}

SchemePool ==
    { <<"h", "t", "t", "p">>, <<"H", "T", "T", "P">>,
      <<"h", "t", "t", "p", "s">>, <<"H", "t", "t", "p", "S">>,
      <<"f", "t", "p">>, <<"f", "i", "l", "e">>, <<>> }

PortNumbers ==
    DANGEROUS_PORTS \cup SAFE_PORTS
        \cup {0, 1, 21, 24, 79, 81, 442, 444, 1023, 1024, 1025, 8081, 65535}

PortPool ==
    {NoPort, PortText(<<>>)}
        \cup { PortText(Digits(n)) : n \in PortNumbers \cup {65536, 99999} }
        \cup { PortText(<<"0", "2", "2">>), PortText(<<"a", "b", "c">>),
               PortText(<<"-", "1">>), PortText(<<"2", "2", "x">>) }

Url(scheme, host, port) ==
    [blank |-> FALSE, bracket |-> "ok", scheme |-> scheme, netloc |-> TRUE,
     host |-> host, port |-> port]

\* "", "   "
BlankUrl ==
    [blank |-> TRUE, bracket |-> "ok", scheme |-> <<>>, netloc |-> FALSE,
     host |-> NoHost, port |-> NoPort]

\* scheme:///path, scheme:path, path -- no network location
NoNetlocUrl(scheme) ==
    [blank |-> FALSE, bracket |-> "ok", scheme |-> scheme, netloc |-> FALSE,
     host |-> NoHost, port |-> NoPort]

\* scheme://[::1/path
BadBracketUrl(scheme) ==
    [blank |-> FALSE, bracket |-> "bad", scheme |-> scheme, netloc |-> TRUE,
     host |-> NoHost, port |-> NoPort]

UrlPool ==
    {BlankUrl}
        \cup { NoNetlocUrl(s) : s \in SchemePool }
        \cup { BadBracketUrl(s) : s \in SchemePool }
        \cup { Url(s, h, NoPort) : s \in SchemePool, h \in HostPool }
        \cup { Url(s, h, p) : s \in SchemePool, h \in FewHosts, p \in PortPool }

\* addresses a resolver answer is made of
ResolvePool ==
    { V4(8, 8, 8, 8), V4(10, 0, 0, 1), V4(127, 0, 0, 1), V4(169, 254, 169, 254),
      V6(<<0, 0, 0, 0, 0, 0, 0, 1>>),
      V6(<<8193, 18528, 18528, 0, 0, 0, 0, 34952>>) }

\* largest number of addresses in one resolver answer
MaxAddrs == 2

RECURSIVE SeqsUpTo(_, _)
SeqsUpTo(S, n) ==
    IF n = 0 THEN {<<>>}
    ELSE LET shorter == SeqsUpTo(S, n - 1)
         IN  shorter \cup { Append(s, x) : s \in shorter, x \in S }

NoDup(s) == \A i, j \in 1..Len(s) : i # j => s[i] # s[j]

AnswerPool ==
    { [status |-> "gaierror", addrs |-> <<>>],
      [status |-> "error", addrs |-> <<>>] }
        \cup { [status |-> "ok", addrs |-> s] :
                 s \in { t \in SeqsUpTo(ResolvePool, MaxAddrs) :
                            t # <<>> /\ NoDup(t) } }

(***************************************************************************)
(* The daemon: data                                                        *)
(***************************************************************************)
\* Input lines read by run() at most
MaxLines == 2

\* The clock advances in steps of TickStep up to MaxTime
TickStep == 10
MaxTime == 30

\* WhisperDaemon.idle_timeout, a constructor parameter
idle_timeout == 10

\* time.sleep(10) in _idle_checker
CheckInterval == 10

\* main() constructs the daemon without allowed_domains
DaemonAllowlist == NoAllowlist

UrlPublic == Url(<<"h", "t", "t", "p">>, Lit(V4(8, 8, 8, 8)), NoPort)
UrlLoopback == Url(<<"h", "t", "t", "p">>, Lit(V4(127, 0, 0, 1)), NoPort)
UrlName == Url(<<"h", "t", "t", "p", "s">>, Name(NameEvil), NoPort)
UrlPort22 == Url(<<"h", "t", "t", "p">>, Name(NameCdn), PortText(<<"2", "2">>))
UrlBadPort ==
    Url(<<"h", "t", "t", "p">>, Lit(V4(8, 8, 8, 8)), PortText(<<"a", "b", "c">>))
UrlFile == NoNetlocUrl(<<"f", "i", "l", "e">>)

DaemonUrls == {UrlPublic, UrlLoopback, UrlName, UrlPort22, UrlBadPort, UrlFile}

DaemonAnswers ==
    { [status |-> "gaierror", addrs |-> <<>>],
      [status |-> "ok", addrs |-> <<V4(8, 8, 8, 8)>>],
      [status |-> "ok", addrs |-> <<V4(127, 0, 0, 1)>>] }

\* One input line.  kind: "blank", "badjson" (not JSON), "nondict" (JSON,
\* but not an object), "dict".  A dict has an optional id, an optional
\* action and, for transcribe, an optional url.
Line(kind, hasId, id, action, hasUrl, url) ==
    [kind |-> kind, hasId |-> hasId, id |-> id, action |-> action,
     hasUrl |-> hasUrl, url |-> url]

NoRequest == Line("none", FALSE, "", "", FALSE, BlankUrl)

IdPool == {"r1", "r2"}

Ids == { <<TRUE, i>> : i \in IdPool } \cup { <<FALSE, "">> }

LinePool ==
    { Line("blank", FALSE, "", "", FALSE, BlankUrl),
      Line("badjson", FALSE, "", "", FALSE, BlankUrl),
      Line("nondict", FALSE, "", "", FALSE, BlankUrl) }
        \cup { Line("dict", i[1], i[2], a, FALSE, BlankUrl) :
                 i \in Ids,
                 a \in {"transcribe", "ping", "status", "shutdown", "bogus", ""} }
        \cup { Line("dict", i[1], i[2], "transcribe", TRUE, u) :
                 i \in Ids, u \in DaemonUrls }

\* A response: the id field (absent in the loop's own error responses),
\* success, the error (its kind, and for a validation failure the rule the
\* text names), the payload, and whether json.dumps can serialize it.
Resp(success, error, rule, payload) ==
    [hasId |-> FALSE, id |-> "", success |-> success, error |-> error,
     rule |-> rule, payload |-> payload, serializable |-> TRUE]

NoResponse == Resp(FALSE, "", "", [kind |-> "none"])
Failure(error, rule) == Resp(FALSE, error, rule, [kind |-> "none"])
Success(payload) == Resp(TRUE, "", "", payload)

\* handle_request: request_id = request.get("id", "unknown");
\* response["id"] = request_id
WithId(req, resp) ==
    [resp EXCEPT !.hasId = TRUE,
                 !.id = IF req.hasId THEN req.id ELSE "unknown"]

\* Locals of the transcribe_audio call in progress
NoVerdict ==
    [outcome |-> "none", kind |-> "", inner |-> "", resolver |-> 0, public |-> {}]

NoCall == [verdict |-> NoVerdict, temp_path |-> 0, error |-> "", result |-> "none"]

\* What handling the last line read has caused so far
FreshLog(line) ==
    [line |-> line, verdict |-> NoVerdict, resolver |-> 0, temps |-> 0,
     fetches |-> 0, connected |-> {}, engines |-> 0, responded |-> FALSE]

(***************************************************************************)
(* The daemon: construction, _shutdown, the idle checker                   *)
(***************************************************************************)
\* The process has ended: run() returned ("done"), an exception left run()
\* ("crashed"), or the constructor raised ("failed").
Terminated == {"done", "crashed", "failed"}

SdSteps == {"sd_running", "sd_check", "sd_del", "sd_set", "sd_event"}

\* An _unload_model that deletes the attribute and does not set it again
ShutdownNextNoReset(step, m) ==
    CASE step = "sd_running" -> "sd_check"
      [] step = "sd_check" ->
            IF m = "deleted" THEN "raise"
            ELSE IF m = "none" THEN "sd_event" ELSE "sd_del"
      [] step = "sd_del" -> IF m = "deleted" THEN "raise" ELSE "sd_event"
      [] step = "sd_set" -> "sd_event"
      [] step = "sd_event" -> "return"

\* _shutdown / _unload_model, one attribute access at a time:
\*   sd_running  self.running = False
\*   sd_check    if self.model is not None
\*   sd_del      del self.model
\*   sd_set      self.model = None
\*   sd_event    self.shutdown_event.set()
\* "raise": AttributeError, the attribute is deleted; "return": finished.
ShutdownNext(step, m) ==
    CASE step = "sd_running" -> "sd_check"
      [] step = "sd_check" ->
            IF m = "deleted" THEN "raise"
            ELSE IF m = "none" THEN "sd_event" ELSE "sd_del"
      [] step = "sd_del" -> IF m = "deleted" THEN "raise" ELSE "sd_set"
      [] step = "sd_set" -> "sd_event"
      [] step = "sd_event" -> "return"

ShutdownStep(step) ==
    /\ running' = IF step = "sd_running" THEN FALSE ELSE running
    /\ model' = IF step = "sd_del" /\ model # "deleted" THEN "deleted"
                ELSE IF step = "sd_set" THEN "none"
                ELSE model
    /\ shutdown_event' = IF step = "sd_event" THEN TRUE ELSE shutdown_event

\* __init__, after the idle thread is started: self._load_model()
Construct ==
    /\ pc = "construct"
    /\ \/ /\ model' = "loaded"
          /\ pc' = "loop"
       \/ /\ pc' = "failed"
          /\ UNCHANGED model
    /\ UNCHANGED <<vvars, running, shutdown_event, last_activity, now, ipc, wake,
                   request, response, cur, linesRead, written, output,
                   tempFiles, cleanupErrors, log>>

\* _idle_checker: while self.running: time.sleep(10)
IdleLoop ==
    /\ pc \notin Terminated
    /\ ipc = "loop"
    /\ IF running
       THEN ipc' = "sleep" /\ wake' = now + CheckInterval
       ELSE ipc' = "done" /\ UNCHANGED wake
    /\ UNCHANGED <<vvars, running, model, shutdown_event, last_activity, now, pc,
                   request, response, cur, linesRead, written, output,
                   tempFiles, cleanupErrors, log>>

\* the sleep ends
IdleWake ==
    /\ pc \notin Terminated
    /\ ipc = "sleep"
    /\ now >= wake
    /\ ipc' = "check"
    /\ UNCHANGED <<vvars, running, model, shutdown_event, last_activity, now, pc,
                   wake, request, response, cur, linesRead, written, output,
                   tempFiles, cleanupErrors, log>>

\* A timeout test with the difference taken the wrong way round
IdleExpiredReversed(t, la) == la - t > idle_timeout

\* if time.time() - self.last_activity > self.idle_timeout
IdleExpired(t, la) == t - la > idle_timeout

IdleCheck ==
    /\ pc \notin Terminated
    /\ ipc = "check"
    /\ ipc' = IF IdleExpired(now, last_activity) THEN "sd_running" ELSE "loop"
    /\ UNCHANGED <<vvars, running, model, shutdown_event, last_activity, now, pc,
                   wake, request, response, cur, linesRead, written, output,
                   tempFiles, cleanupErrors, log>>

\* self._shutdown(); break -- in the idle-checker thread
IdleShutdown ==
    /\ pc \notin Terminated
    /\ ipc \in SdSteps
    /\ ShutdownStep(ipc)
    /\ ipc' = LET nxt == ShutdownNext(ipc, model)
              IN  IF nxt = "raise" THEN "crashed"
                  ELSE IF nxt = "return" THEN "done" ELSE nxt
    /\ UNCHANGED <<vvars, last_activity, now, pc, wake, request, response, cur,
                   linesRead, written, output, tempFiles, cleanupErrors, log>>

\* time passes
Tick ==
    /\ now + TickStep <= MaxTime
    /\ now' = now + TickStep
    /\ UNCHANGED <<vvars, running, model, shutdown_event, last_activity, pc, ipc,
                   wake, request, response, cur, linesRead, written, output,
                   tempFiles, cleanupErrors, log>>

(***************************************************************************)
(* The daemon: run() and handle_request                                    *)
(***************************************************************************)
\* while self.running  (else: the finally clause, self._shutdown())
MainLoop ==
    /\ pc = "loop"
    /\ pc' = IF running THEN "read" ELSE "sd_running"
    /\ UNCHANGED <<vvars, running, model, shutdown_event, last_activity, now, ipc,
                   wake, request, response, cur, linesRead, written, output,
                   tempFiles, cleanupErrors, log>>

\* readline() returns "": break, then the finally clause
ReadEOF ==
    /\ pc = "read"
    /\ pc' = "sd_running"
    /\ UNCHANGED <<vvars, running, model, shutdown_event, last_activity, now, ipc,
                   wake, request, response, cur, linesRead, written, output,
                   tempFiles, cleanupErrors, log>>

\* The error responses run() builds itself carry no id.
InvalidJson == Failure("InvalidJSON", "")
InternalError == Failure("InternalError", "")

\* readline() returns a line: strip, skip if blank, json.loads, and for a
\* value that is no dict handle_request raises at request.get
ReadLine ==
    /\ pc = "read"
    /\ linesRead < MaxLines
    /\ \E line \in LinePool :
          /\ linesRead' = linesRead + 1
          /\ CASE line.kind = "blank" ->
                    /\ pc' = "loop"
                    /\ log' = FreshLog(line)
                    /\ output' = <<>>
                    /\ UNCHANGED <<request, written>>
               [] line.kind = "badjson" ->
                    /\ pc' = "loop"
                    /\ output' = <<InvalidJson>>
                    /\ written' = written + 1
                    /\ log' = [FreshLog(line) EXCEPT !.responded = TRUE]
                    /\ UNCHANGED request
               [] line.kind = "nondict" ->
                    /\ pc' = "loop"
                    /\ output' = <<InternalError>>
                    /\ written' = written + 1
                    /\ log' = [FreshLog(line) EXCEPT !.responded = TRUE]
                    /\ UNCHANGED request
               [] line.kind = "dict" ->
                    /\ pc' = "dispatch"
                    /\ request' = line
                    /\ log' = FreshLog(line)
                    /\ output' = <<>>
                    /\ UNCHANGED written
    /\ UNCHANGED <<vvars, running, model, shutdown_event, last_activity, now, ipc,
                   wake, response, cur, tempFiles, cleanupErrors>>

HandlePing ==
    /\ pc = "dispatch"
    /\ request.action = "ping"
    /\ response' = WithId(request, Success([kind |-> "pong"]))
    /\ pc' = "write"
    /\ UNCHANGED <<vvars, running, model, shutdown_event, last_activity, now, ipc,
                   wake, request, cur, linesRead, written, output, tempFiles, cleanupErrors,
                   log>>

\* reading self.model raises AttributeError while the attribute is deleted;
\* handle_request's except clause answers with the error and the id
HandleStatus ==
    /\ pc = "dispatch"
    /\ request.action = "status"
    /\ response' =
          IF model = "deleted"
          THEN WithId(request, Failure("AttributeError", ""))
          ELSE WithId(request,
                      Success([kind |-> "status",
                               model_loaded |-> (model = "loaded"),
                               last_activity |-> last_activity,
                               idle_timeout |-> idle_timeout]))
    /\ pc' = "write"
    /\ UNCHANGED <<vvars, running, model, shutdown_event, last_activity, now, ipc,
                   wake, request, cur, linesRead, written, output, tempFiles, cleanupErrors,
                   log>>

\* A dispatch without its else branch: response is unbound when the id is
\* added, and the except clause answers with that error
HandleUnknownUnbound ==
    /\ pc = "dispatch"
    /\ request.action \notin {"transcribe", "ping", "status", "shutdown"}
    /\ response' = WithId(request, Failure("UnboundLocalError", ""))
    /\ pc' = "write"
    /\ UNCHANGED <<vvars, running, model, shutdown_event, last_activity, now, ipc,
                   wake, request, cur, linesRead, written, output, tempFiles, cleanupErrors,
                   log>>

\* response = {...}; self._shutdown()
HandleShutdown ==
    /\ pc = "dispatch"
    /\ request.action = "shutdown"
    /\ response' = WithId(request, Success([kind |-> "shutting down"]))
    /\ pc' = "sd_running"
    /\ UNCHANGED <<vvars, running, model, shutdown_event, last_activity, now, ipc,
                   wake, request, cur, linesRead, written, output, tempFiles, cleanupErrors,
                   log>>

\* else: response = {"success": False, "error": f"Unknown action: {action}"}
HandleUnknown ==
    /\ pc = "dispatch"
    /\ request.action \notin {"transcribe", "ping", "status", "shutdown"}
    /\ response' = WithId(request, Failure("UnknownAction", request.action))
    /\ pc' = "write"
    /\ UNCHANGED <<vvars, running, model, shutdown_event, last_activity, now, ipc,
                   wake, request, cur, linesRead, written, output, tempFiles, cleanupErrors,
                   log>>

\* _shutdown in the main thread: called by the shutdown action (a request is
\* being handled) or by run()'s finally clause (none is)
MainShutdown ==
    /\ pc \in SdSteps
    /\ ShutdownStep(pc)
    /\ LET nxt == ShutdownNext(pc, model)
           inHandler == request.kind = "dict"
       IN  /\ pc' = IF nxt = "raise" THEN (IF inHandler THEN "write" ELSE "crashed")
                    ELSE IF nxt = "return" THEN (IF inHandler THEN "write" ELSE "done")
                    ELSE nxt
           /\ response' = IF nxt = "raise" /\ inHandler
                          THEN WithId(request, Failure("AttributeError", ""))
                          ELSE response
    /\ UNCHANGED <<vvars, last_activity, now, ipc, wake, request, cur, linesRead,
                   written, output, tempFiles, cleanupErrors, log>>

\* A loop that swallows the failure of json.dumps and writes nothing
WriteUnlessUnserializable ==
    /\ pc = "write"
    /\ IF response.serializable
       THEN /\ output' = Append(output, response)
            /\ written' = written + 1
            /\ log' = [log EXCEPT !.responded = TRUE]
       ELSE UNCHANGED <<output, written, log>>
    /\ request' = NoRequest
    /\ response' = NoResponse
    /\ cur' = NoCall
    /\ pc' = "loop"
    /\ UNCHANGED <<vvars, running, model, shutdown_event, last_activity, now, ipc,
                   wake, linesRead, tempFiles, cleanupErrors>>

\* print(json.dumps(response), flush=True); a response json.dumps cannot
\* serialize raises TypeError, answered by run()'s generic except clause
Written(resp) == IF resp.serializable THEN resp ELSE InternalError

Write ==
    /\ pc = "write"
    /\ output' = Append(output, Written(response))
    /\ written' = written + 1
    /\ log' = [log EXCEPT !.responded = TRUE]
    /\ request' = NoRequest
    /\ response' = NoResponse
    /\ cur' = NoCall
    /\ pc' = "loop"
    /\ UNCHANGED <<vvars, running, model, shutdown_event, last_activity, now, ipc,
                   wake, linesRead, tempFiles, cleanupErrors>>

(***************************************************************************)
(* The daemon: transcribe_audio                                            *)
(***************************************************************************)
\* A transcribe_audio without its except clause: the exception leaves run()
TranscribeFailsUncaught(error, rule) ==
    /\ response' = WithId(request, Failure(error, rule))
    /\ pc' = "crashed"

\* transcribe_audio's except clause: {"success": False, "error": str(e)},
\* to which handle_request adds the id
TranscribeFails(error, rule) ==
    /\ response' = WithId(request, Failure(error, rule))
    /\ pc' = "write"

\* A transcribe_audio that stores the time elapsed since the last activity
\* where it should store the time
TranscribeBeginElapsed ==
    /\ pc = "dispatch"
    /\ request.action = "transcribe"
    /\ last_activity' = now - last_activity
    /\ pc' = "t_load"
    /\ UNCHANGED <<vvars, running, model, shutdown_event, now, ipc, wake,
                   request, response, cur, linesRead, written, output,
                   tempFiles, cleanupErrors, log>>

\* self.last_activity = time.time()
TranscribeBegin ==
    /\ pc = "dispatch"
    /\ request.action = "transcribe"
    /\ last_activity' = now
    /\ pc' = "t_load"
    /\ UNCHANGED <<vvars, running, model, shutdown_event, now, ipc, wake,
                   request, response, cur, linesRead, written, output,
                   tempFiles, cleanupErrors, log>>

\* self._load_model(), then: if not audio_url: raise ValueError
TranscribeLoad ==
    /\ pc = "t_load"
    /\ \/ /\ model = "deleted"
          /\ TranscribeFails("AttributeError", "")
          /\ UNCHANGED model
       \/ /\ model = "none"
          /\ TranscribeFails("ModelLoadError", "")
          /\ UNCHANGED model
       \/ /\ model # "deleted"
          /\ model' = "loaded"
          /\ IF request.hasUrl
             THEN pc' = "t_validate" /\ UNCHANGED response
             ELSE TranscribeFails("MissingParameter", "")
    /\ UNCHANGED <<vvars, running, shutdown_event, last_activity, now, ipc, wake,
                   request, cur, linesRead, written, output, tempFiles, cleanupErrors,
                   log>>

\* A transcribe_audio that goes on to the download whatever the verdict
AfterValidationIgnored(verdict) == "t_tempfile"

\* where transcribe_audio goes after self.url_validator.validate_url(url)
AfterValidation(verdict) ==
    IF verdict.outcome = "accept" THEN "t_tempfile" ELSE "write"

\* the failure response for a verdict: an SSRFError becomes
\* ValueError(f"URL validation failed: {e}"), whose text names the rule;
\* any other exception is reported as it is
ValidationFailure(verdict) ==
    IF verdict.outcome = "SSRFError"
    THEN Failure("URL validation failed", verdict.kind)
    ELSE Failure(verdict.kind, "")

TranscribeValidate ==
    /\ pc = "t_validate"
    /\ \E answer \in DaemonAnswers :
          LET verdict == validate_url(request.url, DaemonAllowlist, answer) IN
          /\ cur' = [cur EXCEPT !.verdict = verdict]
          /\ log' = [log EXCEPT !.verdict = verdict,
                                !.resolver = @ + verdict.resolver]
          /\ pc' = AfterValidation(verdict)
          /\ response' = IF verdict.outcome = "accept" THEN response
                         ELSE WithId(request, ValidationFailure(verdict))
    /\ UNCHANGED <<vvars, running, model, shutdown_event, last_activity, now, ipc,
                   wake, request, linesRead, written, output, tempFiles, cleanupErrors>>

\* temp_path = self._create_secure_temp_file(); OSError if it fails
TranscribeTempFile ==
    /\ pc = "t_tempfile"
    /\ \/ /\ tempFiles' = tempFiles \cup {linesRead}
          /\ cur' = [cur EXCEPT !.temp_path = linesRead]
          /\ log' = [log EXCEPT !.temps = @ + 1]
          /\ pc' = "t_fetch"
          /\ UNCHANGED response
       \/ /\ TranscribeFails("TempFileError", "")
          /\ UNCHANGED <<tempFiles, cur, log>>
    /\ UNCHANGED <<vvars, running, model, shutdown_event, last_activity, now, ipc,
                   wake, request, linesRead, written, output, cleanupErrors>>

FetchErrors == {"CertificateError", "FetchTimeout", "FetchError"}

\* A download that is tried again when it fails
TranscribeFetchRetried ==
    /\ pc = "t_fetch"
    /\ log' = [log EXCEPT !.fetches = @ + 1]
    /\ \/ pc' = "t_engine" /\ UNCHANGED cur
       \/ pc' = "t_fetch" /\ UNCHANGED cur
       \/ \E e \in {"CertificateError", "FetchTimeout", "FetchError"} :
             /\ cur' = [cur EXCEPT !.error = e]
             /\ pc' = "t_cleanup"
    /\ UNCHANGED <<vvars, running, model, shutdown_event, last_activity, now, ipc,
                   wake, request, response, linesRead, written, output,
                   tempFiles, cleanupErrors>>

\* urllib.request.urlopen(req, context=ssl_context, timeout=...): it is
\* given the URL, so a host that is no literal address is resolved again,
\* and the connection goes to the address the resolver answers now
TranscribeFetch ==
    /\ pc = "t_fetch"
    /\ LET host == hostname_of(urlparse(request.url)) IN
       \/ \E target \in (IF is_ip_address(host) THEN {host.ip}
                          ELSE { a.addrs[1] : a \in {b \in DaemonAnswers :
                                                        b.status = "ok"} }) :
             /\ log' = [log EXCEPT !.fetches = @ + 1,
                                   !.connected = @ \cup {target}]
             /\ \/ pc' = "t_engine" /\ UNCHANGED cur
                \/ \E e \in FetchErrors :
                      /\ cur' = [cur EXCEPT !.error = e]
                      /\ pc' = "t_cleanup"
       \/ /\ ~is_ip_address(host)
          /\ log' = [log EXCEPT !.fetches = @ + 1]
          /\ cur' = [cur EXCEPT !.error = "FetchError"]
          /\ pc' = "t_cleanup"
    /\ UNCHANGED <<vvars, running, model, shutdown_event, last_activity, now, ipc,
                   wake, request, response, linesRead, written, output,
                   tempFiles, cleanupErrors>>

\* result = self.model.transcribe(temp_path, ...): AttributeError unless the
\* engine is loaded; the engine returns a result or fails.  The result may
\* hold values json.dumps cannot serialize.
TranscribeEngine ==
    /\ pc = "t_engine"
    /\ IF model = "loaded"
       THEN /\ log' = [log EXCEPT !.engines = @ + 1]
            /\ \/ \E r \in {"ok", "unserializable"} :
                     cur' = [cur EXCEPT !.result = r]
               \/ cur' = [cur EXCEPT !.error = "EngineError"]
       ELSE /\ cur' = [cur EXCEPT !.error = "AttributeError"]
            /\ UNCHANGED log
    /\ pc' = "t_cleanup"
    /\ UNCHANGED <<vvars, running, model, shutdown_event, last_activity, now, ipc,
                   wake, request, response, linesRead, written, output,
                   tempFiles, cleanupErrors>>

\* the response transcribe_audio returns once the temp file is dealt with
TranscribeResult(call) ==
    IF call.error # ""
    THEN Failure(call.error, "")
    ELSE [Success([kind |-> "transcript"])
            EXCEPT !.serializable = (call.result = "ok")]

\* A finally clause that leaves the file where it is
CleanupSkipped(files, path, unlinked) == files

\* finally: if os.path.exists(temp_path): os.unlink(temp_path); an
\* exception of the cleanup is logged and swallowed
Cleanup(files, path, unlinked) == IF unlinked THEN files \ {path} ELSE files

TranscribeCleanup ==
    /\ pc = "t_cleanup"
    /\ \E unlinked \in BOOLEAN :
          /\ tempFiles' = Cleanup(tempFiles, cur.temp_path, unlinked)
          /\ cleanupErrors' = IF unlinked THEN cleanupErrors
                              ELSE cleanupErrors \cup {cur.temp_path}
    /\ response' = WithId(request, TranscribeResult(cur))
    /\ pc' = "write"
    /\ UNCHANGED <<vvars, running, model, shutdown_event, last_activity, now, ipc,
                   wake, request, cur, linesRead, written, output, log>>

(***************************************************************************)
(* Specifications                                                          *)
(***************************************************************************)
NoResult == NoVerdict

\* WhisperDaemon.__init__ up to the engine load: the idle thread is started,
\* the engine is not loaded yet
DInit ==
    /\ running = TRUE
    /\ model = "none"
    /\ shutdown_event = FALSE
    /\ last_activity = 0
    /\ now = 0
    /\ pc = "construct"
    /\ ipc = "loop"
    /\ wake = 0
    /\ request = NoRequest
    /\ response = NoResponse
    /\ cur = NoCall
    /\ linesRead = 0
    /\ written = 0
    /\ output = <<>>
    /\ tempFiles = {}
    /\ cleanupErrors = {}
    /\ log = FreshLog(NoRequest)

(***************************************************************************)
(* transcribe_audio: the response built from the engine's result           *)
(***************************************************************************)
\* An engine result is [hasSegments, segments]; a segment is
\* [hasEnd, end, hasWords, words].
\* segment.get("end", 0)
segment_end(segment) == IF segment.hasEnd THEN segment.end ELSE 0

\* result.get("segments", [])
segments_of(result) == IF result.hasSegments THEN result.segments ELSE <<>>

\* A duration taken from the last segment alone
duration_last_end(segs) ==
    IF segs = <<>> THEN 0 ELSE segment_end(segs[Len(segs)])

\* sum(segment.get("end", 0) for segment in ...), adding from the left
RECURSIVE duration(_)
duration(segs) ==
    IF segs = <<>> THEN 0
    ELSE duration(SubSeq(segs, 1, Len(segs) - 1)) + segment_end(segs[Len(segs)])

\* for segment in result["segments"]: if "words" in segment:
\*     word_timestamps_list.extend(segment["words"])
RECURSIVE word_timestamps_list(_)
word_timestamps_list(segs) ==
    IF segs = <<>> THEN <<>>
    ELSE word_timestamps_list(SubSeq(segs, 1, Len(segs) - 1))
            \o (IF segs[Len(segs)].hasWords THEN segs[Len(segs)].words
                ELSE <<>>)

\* the success response of transcribe_audio
transcribe_response(result) ==
    [success |-> TRUE,
     duration |-> duration(segments_of(result)),
     segments |-> segments_of(result),
     word_timestamps |-> word_timestamps_list(segments_of(result))]

NoEngineResult == [hasSegments |-> FALSE, segments |-> <<>>]
NoReshape == [success |-> FALSE, duration |-> 0, segments |-> <<>>,
              word_timestamps |-> <<>>]

\* largest number of segments in an engine result
MaxSegments == 2

WordLists == { <<>>, <<"w1">>, <<"w1", "w2">>, <<"w2", "w1">> }

SegmentPool ==
    { [hasEnd |-> TRUE, end |-> e, hasWords |-> TRUE, words |-> w] :
         e \in {0, 1, 2}, w \in WordLists }
       \cup { [hasEnd |-> FALSE, end |-> 0, hasWords |-> TRUE, words |-> w] :
                 w \in WordLists }
       \cup { [hasEnd |-> TRUE, end |-> e, hasWords |-> FALSE, words |-> <<>>] :
                 e \in {0, 1, 2} }
       \cup { [hasEnd |-> FALSE, end |-> 0, hasWords |-> FALSE, words |-> <<>>] }

EngineResults ==
    {NoEngineResult}
       \cup { [hasSegments |-> TRUE, segments |-> g] :
                 g \in UNION { [1..n -> SegmentPool] : n \in 0..MaxSegments } }

VIdle ==
    /\ vurl = BlankUrl
    /\ vallowed = NoAllowlist
    /\ vanswer = [status |-> "gaierror", addrs |-> <<>>]
    /\ vresult = NoResult
    /\ eresult = NoEngineResult
    /\ reshaped = NoReshape

Init == DInit /\ VIdle

Next ==
    \/ Construct
    \/ IdleLoop
    \/ IdleWake
    \/ IdleCheck
    \/ IdleShutdown
    \/ Tick
    \/ MainLoop
    \/ ReadEOF
    \/ ReadLine
    \/ HandlePing
    \/ HandleStatus
    \/ HandleShutdown
    \/ HandleUnknown
    \/ MainShutdown
    \/ Write
    \/ TranscribeBegin
    \/ TranscribeLoad
    \/ TranscribeValidate
    \/ TranscribeTempFile
    \/ TranscribeFetch
    \/ TranscribeEngine
    \/ TranscribeCleanup

Spec == Init /\ [][Next]_vars

\* The daemon in real time: the idle-checker thread runs the few
\* instructions between two sleeps in less than one step of the clock, so
\* the clock advances only while that thread sleeps or has ended.  The clock
\* keeps advancing and the thread keeps being scheduled; nothing obliges
\* input to arrive.
TimedTick ==
    /\ ipc \in {"sleep", "done", "crashed"}
    /\ Tick

TimedNext ==
    \/ Next /\ now' = now
    \/ TimedTick

FairSpec ==
    /\ Init
    /\ [][TimedNext]_vars
    /\ WF_vars(TimedTick)
    /\ WF_vars(IdleLoop)
    /\ WF_vars(IdleWake)
    /\ WF_vars(IdleCheck)
    /\ WF_vars(IdleShutdown)

\* validate_url applied to one URL under one allowlist, the resolver
\* answering vanswer if it is asked
VInit ==
    /\ vurl \in UrlPool
    /\ vallowed \in AllowlistPool
    /\ vanswer \in (IF vurl.host.form \in {"name", "enc4"} THEN AnswerPool
                    ELSE {[status |-> "gaierror", addrs |-> <<>>]})
    /\ vresult = NoResult
    /\ eresult = NoEngineResult
    /\ reshaped = NoReshape
    /\ DInit

ValidateCall ==
    /\ vresult = NoResult
    /\ vresult' = validate_url(vurl, vallowed, vanswer)
    /\ UNCHANGED <<vurl, vallowed, vanswer, eresult, reshaped, dvars>>

SpecValidator == VInit /\ [][ValidateCall]_vars

\* the response built from one engine result
RInit ==
    /\ eresult \in EngineResults
    /\ reshaped = NoReshape
    /\ vurl = BlankUrl
    /\ vallowed = NoAllowlist
    /\ vanswer = [status |-> "gaierror", addrs |-> <<>>]
    /\ vresult = NoResult
    /\ DInit

ReshapeCall ==
    /\ reshaped = NoReshape
    /\ reshaped' = transcribe_response(eresult)
    /\ UNCHANGED <<vurl, vallowed, vanswer, vresult, eresult, dvars>>

SpecReshape == RInit /\ [][ReshapeCall]_vars

(***************************************************************************)
(* Properties of the validator (specification SpecValidator)               *)
(***************************************************************************)
Validated == vresult # NoResult

HttpSchemes == { <<"h", "t", "t", "p">>, <<"h", "t", "t", "p", "s">> }

\* the text is a decimal number
IsNumber(t) == Len(t) > 0 /\ \A i \in 1..Len(t) : IsDigit(t[i])

\* the URL parses and names a host
HasHost(url) == ~url.blank /\ url.bracket = "ok" /\ url.netloc
                    /\ url.host.form # "none"

\* no port, or one no port rule objects to
PortAdmitted(port) ==
    \/ ~port.present
    \/ port.text = <<>>
    \/ /\ IsNumber(port.text)
       /\ LET n == IntOf(port.text) IN
          /\ n \in {80, 443} \/ (n >= 1024 /\ n <= 65535)
          /\ n \notin {1433, 3306, 5432, 6379, 11211, 27017}

\* a URL that goes wrong in nothing but, possibly, its host
Plain(url) ==
    /\ HasHost(url)
    /\ Lower(url.scheme) \in HttpSchemes
    /\ PortAdmitted(url.port)

\* host h equals an entry of ds or ends with "." followed by one
Allowlisted(h, ds) ==
    \E d \in ds :
       \/ h = d
       \/ \E k \in 1..Len(h) :
             h[k] = "." /\ SubSeq(h, k + 1, Len(h)) = d

\* C3: every URL whose scheme, compared case-insensitively, is neither http
\* nor https fails with SchemeNotAllowed, a URL without host (file:///...)
\* included.  (A URL urlparse cannot parse has no scheme to speak of.)
C3_SchemeOutsideHttpRejected ==
    (/\ Validated
     /\ ~vurl.blank
     /\ vurl.bracket = "ok"
     /\ Lower(vurl.scheme) \notin HttpSchemes)
        => vresult.outcome = "SSRFError" /\ vresult.kind = "SchemeNotAllowed"

C3_Witness ==
    /\ Validated
    /\ vurl = NoNetlocUrl(<<"f", "i", "l", "e">>)
    /\ vresult.kind = "SchemeNotAllowed"

\* the ranges of C4, by their numbers
InLoopbackRange(ip) ==
    \/ ip.v = 4 /\ ip.a[1] = 127
    \/ ip.v = 6 /\ ip.a = <<0, 0, 0, 0, 0, 0, 0, 1>>

InLinkLocalRange(ip) ==
    \/ ip.v = 4 /\ ip.a[1] = 169 /\ ip.a[2] = 254
    \/ ip.v = 6 /\ ip.a[1] \in 65152..65215

InPrivateRange(ip) ==
    /\ ip.v = 4
    /\ \/ ip.a[1] = 10
       \/ ip.a[1] = 172 /\ ip.a[2] \in 16..31
       \/ ip.a[1] = 192 /\ ip.a[2] = 168

InMulticastRange(ip) ==
    \/ ip.v = 4 /\ ip.a[1] \in 224..239
    \/ ip.v = 6 /\ ip.a[1] \in 65280..65535

\* C4: a literal host address in 127.0.0.0/8 or ::1 fails with Loopback, in
\* 169.254.0.0/16 or fe80::/10 with LinkLocal, in 10.0.0.0/8, 172.16.0.0/12
\* or 192.168.0.0/16 with Private, in 224.0.0.0/4 or ff00::/8 with Multicast.
C4_LiteralRangeKinds ==
    (/\ Validated
     /\ ~vallowed.configured
     /\ Plain(vurl)
     /\ vurl.host.form \in {"v4", "v6"})
        => LET ip == vurl.host.ip IN
           /\ InLoopbackRange(ip) =>
                 vresult.outcome = "SSRFError" /\ vresult.kind = "Loopback"
           /\ InLinkLocalRange(ip) =>
                 vresult.outcome = "SSRFError" /\ vresult.kind = "LinkLocal"
           /\ InPrivateRange(ip) =>
                 vresult.outcome = "SSRFError" /\ vresult.kind = "Private"
           /\ InMulticastRange(ip) =>
                 vresult.outcome = "SSRFError" /\ vresult.kind = "Multicast"

C4_Witness ==
    /\ Validated
    /\ ~vallowed.configured
    /\ Plain(vurl)
    /\ vurl.host = Lit(V4(127, 255, 255, 255))
    /\ vresult.kind = "Loopback"

\* C5: an IPv4-mapped IPv6 literal ::ffff:a.b.c.d gets the verdict of the
\* literal a.b.c.d in the same URL: the same kind of rejection, or accepted
\* when a.b.c.d is.
C5_MappedAsEmbedded ==
    (/\ Validated
     /\ Plain(vurl)
     /\ vurl.host.form = "v6"
     /\ vurl.host.ip.a[1] = 0 /\ vurl.host.ip.a[2] = 0 /\ vurl.host.ip.a[3] = 0
     /\ vurl.host.ip.a[4] = 0 /\ vurl.host.ip.a[5] = 0
     /\ vurl.host.ip.a[6] = 65535)
        => LET g == vurl.host.ip.a
               embedded == V4(g[7] \div 256, g[7] % 256, g[8] \div 256, g[8] % 256)
               e == validate_url([vurl EXCEPT !.host = Lit(embedded)],
                                 vallowed, vanswer)
           IN  vresult.outcome = e.outcome /\ vresult.kind = e.kind

\* the URL comes as far as resolving its host name
Resolved(url, allowed) ==
    /\ Plain(url)
    /\ url.host.form \in {"name", "enc4"}
    /\ allowed.configured =>
           Allowlisted(HostText(hostname_of(urlparse(url))), allowed.domains)

Unsafe(ip) == validate_ip_address(ip) # "Public"

\* C6: a host name is accepted only if the resolver answers and every
\* address of the answer is Public; one unsafe address in the answer rejects
\* it (ResolvesToUnsafeAddress), a failing resolver rejects it
\* (ResolutionFailure).
C6_EveryResolvedAddressPublic ==
    (Validated /\ Resolved(vurl, vallowed))
        => LET n == Len(vanswer.addrs) IN
           /\ vresult.outcome \in {"accept", "SSRFError"}
           /\ vresult.outcome = "accept" <=>
                 /\ vanswer.status = "ok"
                 /\ \A i \in 1..n : ~Unsafe(vanswer.addrs[i])
           /\ (vanswer.status = "ok" /\ \E i \in 1..n : Unsafe(vanswer.addrs[i]))
                 => vresult.kind = "ResolvesToUnsafeAddress"
           /\ vanswer.status # "ok" => vresult.kind = "ResolutionFailure"

C6_Witness ==
    /\ Validated
    /\ Resolved(vurl, vallowed)
    /\ vanswer.status = "ok"
    /\ Len(vanswer.addrs) = 2
    /\ ~Unsafe(vanswer.addrs[1])
    /\ Unsafe(vanswer.addrs[2])
    /\ vresult.kind = "ResolvesToUnsafeAddress"

\* C7: a URL with an explicit port in {22, 23, 25, 53, 110, 143, 993, 995,
\* 1433, 3306, 5432, 6379, 11211, 27017} fails with PortNotAllowed whatever
\* its host, allowlisted and resolving to public addresses or not, and the
\* resolver is not asked.
C7_DangerousPortRejected ==
    (/\ Validated
     /\ HasHost(vurl)
     /\ Lower(vurl.scheme) \in HttpSchemes
     /\ vurl.port.present
     /\ IsNumber(vurl.port.text)
     /\ IntOf(vurl.port.text) \in {22, 23, 25, 53, 110, 143, 993, 995, 1433,
                                   3306, 5432, 6379, 11211, 27017})
        => /\ vresult.outcome = "SSRFError"
           /\ vresult.kind = "PortNotAllowed"
           /\ vresult.resolver = 0

C7_Witness ==
    /\ Validated
    /\ vurl.host = Name(NameCdn)
    /\ vallowed = Allowlist({NameCdn})
    /\ vurl.port = PortText(<<"3", "3", "0", "6">>)
    /\ vanswer = [status |-> "ok", addrs |-> <<V4(8, 8, 8, 8)>>]
    /\ vresult.kind = "PortNotAllowed"

\* C8: with an allowlist configured, a host passes the allowlist step iff it
\* equals an entry or ends with "." and an entry; any other host fails with
\* NotAllowlisted, also when it resolves to a public address, and neither
\* the resolver nor the address classification has been asked by then.
C8_AllowlistMatch ==
    (Validated /\ vallowed.configured /\ Plain(vurl))
        => LET h == HostText(hostname_of(urlparse(vurl))) IN
           /\ vresult.kind = "NotAllowlisted"
                 <=> ~Allowlisted(h, vallowed.domains)
           /\ vresult.kind = "NotAllowlisted"
                 => /\ vresult.outcome = "SSRFError"
                    /\ vresult.resolver = 0
                    /\ vresult.public = {}

C8_Witness ==
    /\ Validated
    /\ vallowed.configured
    /\ vurl.host = Name(NameLookalike)
    /\ Plain(vurl)
    /\ vanswer = [status |-> "ok", addrs |-> <<V4(8, 8, 8, 8)>>]
    /\ vresult.kind = "NotAllowlisted"

(***************************************************************************)
(* Properties of the daemon (specification Spec)                           *)
(***************************************************************************)
\* transcribe_audio has been entered and has not returned
InTranscribe ==
    pc \in {"t_load", "t_validate", "t_tempfile", "t_fetch", "t_engine",
            "t_cleanup"}

\* the response written for the line read last
LastWritten == output[Len(output)]

\* C1: every address the fetch of a transcribe request connects to is one
\* the validation of that request classified Public, whatever the resolver
\* answers at fetch time.
C1_FetchOnlyValidatedAddresses ==
    \A a \in log.connected : a \in log.verdict.public

\* C2: when the validator rejects the URL of a transcribe request with an
\* SSRFError, no temp file is created, nothing is fetched and the engine is
\* not run for that request, and its response is a failure whose error names
\* the violated rule.
C2_RejectedUrlNeverFetched ==
    (log.line.action = "transcribe" /\ log.verdict.outcome = "SSRFError")
        => /\ log.temps = 0
           /\ log.fetches = 0
           /\ log.connected = {}
           /\ log.engines = 0
           /\ pc \notin {"t_tempfile", "t_fetch", "t_engine", "t_cleanup"}
           /\ log.responded =>
                 /\ Len(output) = 1
                 /\ ~LastWritten.success
                 /\ LastWritten.error = "URL validation failed"
                 /\ LastWritten.rule = log.verdict.kind

C2_Witness ==
    /\ log.line.action = "transcribe"
    /\ log.line.url = UrlLoopback
    /\ log.verdict.outcome = "SSRFError"
    /\ log.verdict.kind = "Loopback"
    /\ log.responded

\* C9: the response written for a request that carries an id carries the
\* same id, whatever the action and also when the response is the generic
\* internal error of the protocol loop.
C9_ResponseCarriesRequestId ==
    (log.responded /\ log.line.kind = "dict" /\ log.line.hasId)
        => /\ Len(output) = 1
           /\ LastWritten.hasId
           /\ LastWritten.id = log.line.id

\* C10 as stated: no temp file of the daemon exists while no transcribe
\* call is in progress.
C10_NoTempFileOutsideTranscribe ==
    ~InTranscribe => tempFiles = {}

\* C10: once a transcribe call has returned, the temp file it created no
\* longer exists unless deleting it failed, in which case the failure was
\* logged; so a temp file that exists while no transcribe call is in
\* progress is one whose deletion failed.
C10_TempFileGoneUnlessDeleteFailed ==
    ~InTranscribe => tempFiles \subseteq cleanupErrors

C10_Witness ==
    /\ pc = "write"
    /\ log.line.action = "transcribe"
    /\ log.temps = 1
    /\ cur.error = "FetchTimeout"
    /\ cur.temp_path \notin tempFiles
    /\ cleanupErrors = {}

\* the line read last asks for a response
Answerable == log.line.kind \in {"badjson", "nondict", "dict"}

\* C11: the loop writes exactly one response for every non-blank line it
\* reads and none for a blank line, and the response to a line is written
\* before the next line is read, so responses come in the order of the
\* requests.
C11_OneResponsePerLineInOrder ==
    [][ /\ linesRead' # linesRead =>
              /\ pc = "read"
              /\ Answerable => log.responded /\ Len(output) = 1
              /\ ~Answerable => ~log.responded /\ Len(output) = 0
              /\ written' = written
                    + (IF log'.line.kind \in {"badjson", "nondict"} THEN 1 ELSE 0)
              /\ Len(output') = written' - written
        /\ written' # written =>
              /\ written' = written + 1
              /\ log'.responded
              /\ log'.line.kind # "blank"
              /\ Len(output') = 1
              /\ linesRead' = linesRead => ~log.responded /\ log.line.kind = "dict"
      ]_vars

C11_Witness ==
    /\ linesRead = 2
    /\ log.line.kind = "blank"
    /\ written = 1
    /\ output = <<>>
    /\ pc = "read"

\* the main thread is in _shutdown, or the process has ended
Leaving == pc \in SdSteps \cup Terminated

\* C12: a bad request never ends the loop: the loop is left only at its
\* head with running false, at end of input, or by the shutdown action (and
\* the constructor may fail before it); a line that is not a structured
\* message and a request whose handling raises are answered with a failure,
\* after which the loop is at its head again with running as it was.
C12_BadRequestKeepsLoop ==
    [][ /\ (Leaving' /\ ~Leaving) =>
              \/ pc = "construct"
              \/ pc = "loop" /\ ~running
              \/ pc = "read" /\ linesRead' = linesRead
              \/ pc = "dispatch" /\ request.action = "shutdown"
        /\ (written' # written /\ ~output'[Len(output')].success) =>
              /\ pc' = "loop"
              /\ running' = running
              /\ log'.line.kind \in {"badjson", "nondict"}
                    => ~output'[Len(output')].hasId
      ]_vars

C12_Witness ==
    /\ linesRead = 2
    /\ written = 2
    /\ log.line.kind = "dict"
    /\ log.responded
    /\ ~LastWritten.success
    /\ LastWritten.error = "EngineError"
    /\ pc = "read"
    /\ running

\* C13: a _shutdown call made after another one has returned, with no other
\* one in progress, raises nothing and ends in the state the first one left:
\* running false, engine released, shutdown signal set.
C13_ShutdownIdempotent ==
    [][ (pc \in SdSteps /\ shutdown_event /\ ipc \notin SdSteps) =>
              /\ pc' # "crashed"
              /\ response'.error # "AttributeError"
              /\ pc' \notin SdSteps =>
                    ~running' /\ model' = "none" /\ shutdown_event'
      ]_vars

C13_Witness ==
    /\ pc = "done"
    /\ log.line.action = "shutdown"
    /\ log.responded
    /\ LastWritten.success
    /\ ipc \in {"loop", "sleep", "check"}
    /\ ~running /\ model = "none" /\ shutdown_event

\* ShuttingDown: running false, engine released, shutdown signal set
ShutDown == ~running /\ model = "none" /\ shutdown_event

\* the loop waits for input while the clock can still advance
WaitingWithTimeLeft == pc = "read" /\ now + TickStep <= MaxTime

\* C14 (specification FairSpec): if the loop waits for input and
\* now - last_activity >= idle_timeout, then, time advancing and no input
\* arriving, the idle checker eventually performs the shutdown by itself.
C14_IdleEventuallyShutsDown ==
    (WaitingWithTimeLeft /\ now - last_activity >= idle_timeout)
        ~> ((ShutDown /\ ipc = "done") \/ pc # "read")

C14_Witness ==
    /\ pc = "read"
    /\ linesRead = 0
    /\ now - last_activity > idle_timeout
    /\ ShutDown
    /\ ipc = "done"

\* C15: once the idle checker has shut the daemon down, no line that arrives
\* afterwards is dispatched to handle_request.
C15_NoDispatchAfterIdleShutdown ==
    [][ (ipc = "done" /\ ShutDown /\ linesRead' # linesRead)
            => pc' # "dispatch" ]_vars

\* C16: however _shutdown in the idle-checker thread interleaves with
\* _shutdown or a read of the engine handle in the request flow, neither
\* flow raises, and run() ends with running false and model = None.
C16_ConcurrentShutdownSafe ==
    /\ ipc # "crashed"
    /\ pc # "crashed"
    /\ response.error # "AttributeError"
    /\ cur.error # "AttributeError"
    /\ pc = "done" => ~running /\ model = "none"

\* C17: a handle_request call that returns a success response, ping and
\* status included, has set last_activity to the time of the call.
C17_SuccessSetsLastActivity ==
    [][ (pc = "dispatch" /\ pc' = "write" /\ response'.success)
            => last_activity' = now ]_vars

\* C18: the shutdown action is answered with a success response carrying
\* the request id, the daemon is shut down when that response is written,
\* and no line is read after it.
C18_ShutdownAcknowledged ==
    [][ /\ (written' # written /\ log'.line.kind = "dict"
               /\ log'.line.action = "shutdown") =>
              /\ output'[1].success
              /\ output'[1].hasId
              /\ log'.line.hasId => output'[1].id = log'.line.id
              /\ ~running' /\ model' # "loaded" /\ shutdown_event'
        /\ linesRead' # linesRead => log.line.action # "shutdown"
      ]_vars

\* C19: when run() ends, by end of input or otherwise, the daemon is shut
\* down: running false, engine released, shutdown signal set.
C19_RunEndsShutDown ==
    pc \in {"done", "crashed"} =>
        ~running /\ model # "loaded" /\ shutdown_event

\* C20 as stated: at most one fetch and one engine invocation for the
\* request in flight, at most one temp file in existence, at most one
\* engine instance.
C20_AtMostOneOfEach ==
    /\ log.fetches <= 1
    /\ log.engines <= 1
    /\ log.temps <= 1
    /\ Cardinality(tempFiles) <= 1

\* C20: at most one request is in flight: it is the line read last, not yet
\* answered; at most one fetch, one engine invocation and one temp file are
\* made for it, and at most one temp file exists besides those whose
\* deletion failed.
C20_AtMostOneInFlight ==
    /\ log.fetches <= 1
    /\ log.engines <= 1
    /\ log.temps <= 1
    /\ Cardinality(tempFiles \ cleanupErrors) <= 1
    /\ tempFiles \ cleanupErrors # {} =>
          pc \in {"t_fetch", "t_engine", "t_cleanup"}
    /\ request.kind = "dict" => request = log.line /\ ~log.responded
    /\ InTranscribe => request.kind = "dict" /\ request.action = "transcribe"

C20_Witness ==
    /\ linesRead = 2
    /\ pc = "t_engine"
    /\ tempFiles = {1, 2}
    /\ cleanupErrors = {1}
    /\ log.fetches = 1

\* C21: when the fetch of a validated URL fails, the response is a failure
\* carrying the error and the engine is not run for the request; the fetch
\* is made at most once per transcribe request, and exactly once when
\* validation and temp-file creation succeeded.
C21_FetchFailureNotRetried ==
    /\ log.fetches <= 1
    /\ log.fetches = (IF log.temps = 1 /\ pc # "t_fetch" THEN 1 ELSE 0)
    /\ log.temps = 1 => log.verdict.outcome = "accept"
    /\ cur.error \in {"CertificateError", "FetchTimeout", "FetchError"} =>
          log.engines = 0 /\ pc \in {"t_cleanup", "write"}
    /\ (pc = "write" /\ cur.error \in {"CertificateError", "FetchTimeout",
                                        "FetchError"}) =>
          /\ ~response.success
          /\ response.error = cur.error
          /\ response.serializable
    /\ (log.responded /\ LastWritten.error \in {"CertificateError",
                                                 "FetchTimeout", "FetchError"}) =>
          /\ ~LastWritten.success
          /\ log.fetches = 1
          /\ log.engines = 0

C21_Witness ==
    /\ log.responded
    /\ log.line.action = "transcribe"
    /\ ~LastWritten.success
    /\ LastWritten.error = "CertificateError"
    /\ log.fetches = 1
    /\ log.engines = 0

\* C22: validate_url ends either by accepting or with an SSRFError; no
\* other exception leaves it.
C22_OnlySSRFErrorEscapes ==
    Validated => vresult.outcome \in {"accept", "SSRFError"}

\* the rules of validation, each by what it objects to
LacksHost(url) == ~url.netloc \/ url.host.form = "none"

SchemeRefused(url) == Lower(url.scheme) \notin HttpSchemes

OffAllowlist(url, allowed) ==
    /\ allowed.configured
    /\ ~Allowlisted(HostText(hostname_of(urlparse(url))), allowed.domains)

\* what is left to the address rules: the verdict on a literal, on the
\* resolver's answer, or acceptance
AddressKinds ==
    {"Ok", "Loopback", "LinkLocal", "Private", "Multicast", "Unspecified",
     "Broadcast", "Reserved", "ResolutionFailure", "ResolvesToUnsafeAddress"}

\* the kind of the first failing rule: scheme, then host, then port, then
\* allowlist
KindSchemeFirst(url, allowed) ==
    IF url.blank \/ url.bracket # "ok" THEN "Malformed"
    ELSE IF SchemeRefused(url) THEN "SchemeNotAllowed"
    ELSE IF LacksHost(url) THEN "Malformed"
    ELSE IF ~PortAdmitted(url.port) THEN "PortNotAllowed"
    ELSE IF OffAllowlist(url, allowed) THEN "NotAllowlisted"
    ELSE "address"

\* the kind of the first failing rule: host, then scheme, then port, then
\* allowlist
KindHostFirst(url, allowed) ==
    IF url.blank \/ url.bracket # "ok" THEN "Malformed"
    ELSE IF LacksHost(url) THEN "Malformed"
    ELSE IF SchemeRefused(url) THEN "SchemeNotAllowed"
    ELSE IF ~PortAdmitted(url.port) THEN "PortNotAllowed"
    ELSE IF OffAllowlist(url, allowed) THEN "NotAllowlisted"
    ELSE "address"

\* C23 (as the code has it): a validation that ends with a verdict reports
\* the kind of the first failing rule in the order empty or unparseable
\* input, scheme, missing host, port, allowlist, address rules; a URL with a
\* forbidden port and a host off the allowlist fails with PortNotAllowed.
C23_FirstFailingRuleSchemeFirst ==
    (Validated /\ vresult.outcome # "escape")
        => LET k == KindSchemeFirst(vurl, vallowed) IN
           /\ k # "address" => vresult.outcome = "SSRFError" /\ vresult.kind = k
           /\ k = "address" => vresult.kind \in AddressKinds
           /\ (/\ HasHost(vurl)
               /\ ~SchemeRefused(vurl)
               /\ ~PortAdmitted(vurl.port)
               /\ OffAllowlist(vurl, vallowed))
                  => vresult.kind = "PortNotAllowed"

C23_Witness ==
    /\ Validated
    /\ vurl = NoNetlocUrl(<<"f", "t", "p">>)
    /\ KindHostFirst(vurl, vallowed) = "Malformed"
    /\ vresult.outcome = "SSRFError"
    /\ vresult.kind = "SchemeNotAllowed"

\* C23 (as stated): a validation that ends with a verdict reports the kind
\* of the first failing rule in the order empty input, missing host, scheme,
\* port, allowlist, address rules; a URL without host is Malformed whatever
\* its scheme.
C23_FirstFailingRuleHostFirst ==
    (Validated /\ vresult.outcome # "escape")
        => LET k == KindHostFirst(vurl, vallowed) IN
           /\ k # "address" => vresult.outcome = "SSRFError" /\ vresult.kind = k
           /\ k = "address" => vresult.kind \in AddressKinds

\* the URL is http(s)://<literal> with no port, checked without allowlist
LiteralUrl(ip) ==
    /\ Validated
    /\ ~vallowed.configured
    /\ Lower(vurl.scheme) \in HttpSchemes
    /\ vurl = Url(vurl.scheme, [form |-> IF ip.v = 4 THEN "v4" ELSE "v6",
                                ip |-> ip], NoPort)

\* C24: the unspecified addresses 0.0.0.0 and :: fail with Unspecified and
\* the IPv4 broadcast address 255.255.255.255 fails with Broadcast.
C24_UnspecifiedAndBroadcastKinds ==
    /\ (LiteralUrl(V4(0, 0, 0, 0)) \/ LiteralUrl(V6(<<0, 0, 0, 0, 0, 0, 0, 0>>)))
          => vresult.outcome = "SSRFError" /\ vresult.kind = "Unspecified"
    /\ LiteralUrl(V4(255, 255, 255, 255))
          => vresult.outcome = "SSRFError" /\ vresult.kind = "Broadcast"

\* C25: without explicit port the port rule passes; an explicit port p of
\* 0..65535 passes iff p is not a dangerous port and p is 80, 443, 8080,
\* 8443 or at least 1024; every other such port, 0 included, fails with
\* PortNotAllowed.
C25_PortDecision ==
    (/\ Validated
     /\ HasHost(vurl)
     /\ ~SchemeRefused(vurl))
        => /\ (~vurl.port.present \/ vurl.port.text = <<>>)
                  => vresult.kind # "PortNotAllowed"
           /\ (/\ vurl.port.present
               /\ IsNumber(vurl.port.text)
               /\ IntOf(vurl.port.text) <= 65535)
                  => LET p == IntOf(vurl.port.text)
                         dangerous == p \in {22, 23, 25, 53, 110, 143, 993,
                                             995, 1433, 3306, 5432, 6379,
                                             11211, 27017}
                         passes == /\ ~dangerous
                                   /\ \/ p \in {80, 443, 8080, 8443}
                                      \/ p >= 1024
                     IN  /\ passes <=> vresult.kind # "PortNotAllowed"
                         /\ ~passes => vresult.outcome = "SSRFError"
                         /\ ~passes => vresult.inner
                                = (IF dangerous THEN "dangerous" ELSE "system")

C25_Witness ==
    /\ Validated
    /\ HasHost(vurl)
    /\ ~SchemeRefused(vurl)
    /\ vurl.port.present
    /\ vurl.port.text = <<"0">>
    /\ vresult.outcome = "SSRFError"
    /\ vresult.kind = "PortNotAllowed"

\* C26: the idle checker sets running to false only in a state where
\* now - last_activity >= idle_timeout holds at that moment; a transcribe
\* request that has just refreshed last_activity is not followed by an idle
\* shutdown decided on the older timestamp.
C26_IdleShutdownOnFreshTimestamp ==
    [][ (ipc = "sd_running" /\ ipc' # ipc)
            => now - last_activity >= idle_timeout ]_vars

\* C27: once running is false it stays false, and once shutdown has
\* released the engine no later operation loads it again.
C27_ShuttingDownTerminal ==
    [][ /\ ~running => ~running'
        /\ (~running /\ shutdown_event /\ model = "none" /\ pc # "construct")
              => model' # "loaded" ]_vars

\* C28: ping answers with the fixed acknowledgement and status with the
\* engine-loaded flag, last_activity and idle_timeout of the current state;
\* handling either leaves last_activity, running, the engine handle and the
\* shutdown signal as they are.
C28_PingStatusReadOnly ==
    [][ (pc = "dispatch" /\ request.action \in {"ping", "status"} /\ pc' # pc)
            => /\ UNCHANGED <<last_activity, running, model, shutdown_event>>
               /\ pc' = "write"
               /\ response'.success
               /\ request.action = "ping"
                     => response'.payload = [kind |-> "pong"]
               /\ request.action = "status"
                     => /\ response'.payload.kind = "status"
                        /\ response'.payload.model_loaded = (model = "loaded")
                        /\ response'.payload.last_activity = last_activity
                        /\ response'.payload.idle_timeout = idle_timeout ]_vars

\* the line read last asks for a transcription and has no url (or an empty
\* one)
UrlMissing ==
    /\ log.line.kind = "dict"
    /\ log.line.action = "transcribe"
    /\ ~log.line.hasUrl

\* C29: a transcribe request without url is answered with a failure that
\* reports the missing parameter, and neither the resolver, nor temp-file
\* creation, nor the fetch, nor the engine is invoked for it.
C29_MissingUrlReported ==
    UrlMissing
        => /\ log.verdict = NoVerdict
           /\ log.resolver = 0
           /\ log.temps = 0
           /\ log.fetches = 0
           /\ log.engines = 0
           /\ log.responded
                 => /\ ~LastWritten.success
                    /\ LastWritten.error = "MissingParameter"

KnownActions == {"transcribe", "ping", "status", "shutdown"}

\* C30: a request whose action is none of transcribe, ping, status,
\* shutdown, a request without action included, is answered with a failure
\* that names the action and carries the request id ("unknown" when the
\* request has none); handling it changes neither running, the engine
\* handle, the shutdown signal, last_activity nor the temp files, and the
\* loop is at its head again once the response is written.
C30_UnknownActionRefused ==
    [][ /\ (pc = "dispatch" /\ request.action \notin KnownActions /\ pc' # pc)
              => /\ pc' = "write"
                 /\ ~response'.success
                 /\ response'.error = "UnknownAction"
                 /\ response'.rule = request.action
                 /\ response'.hasId
                 /\ response'.id = (IF request.hasId THEN request.id
                                    ELSE "unknown")
                 /\ response'.serializable
                 /\ UNCHANGED <<running, model, shutdown_event, last_activity,
                                tempFiles, cleanupErrors>>
        /\ (/\ pc = "write" /\ pc' # pc
            /\ request.kind = "dict"
            /\ request.action \notin KnownActions)
              => /\ pc' = "loop"
                 /\ output' = Append(output, response)
                 /\ response.error = "UnknownAction"
                 /\ UNCHANGED <<running, model, shutdown_event, last_activity,
                                tempFiles, cleanupErrors>> ]_vars

C30_Witness ==
    /\ log.line.kind = "dict"
    /\ log.line.action = ""
    /\ ~log.line.hasId
    /\ log.responded
    /\ LastWritten.error = "UnknownAction"
    /\ LastWritten.rule = ""
    /\ LastWritten.id = "unknown"
    /\ running
    /\ pc = "read"

\* C31: when construction completes the daemon is Active with the engine
\* loaded (running true, model loaded), whatever the idle-checker thread
\* did meanwhile; when the engine load fails construction fails and no
\* request is processed.
C31_ConstructedActive ==
    [][ /\ (pc = "construct" /\ pc' = "loop") => running' /\ model' = "loaded"
        /\ (pc = "construct" /\ pc' # pc) => pc' \in {"loop", "failed"}
        /\ pc = "failed" => pc' = "failed" /\ linesRead' = 0 ]_vars

\* C33: last_activity never decreases: the only step that writes it is the
\* start of transcribe_audio, which writes the current time; the idle
\* checker and _shutdown never write it.
C33_LastActivityMonotonic ==
    [][ /\ last_activity' >= last_activity
        /\ last_activity <= now
        /\ last_activity' # last_activity
              => /\ pc = "dispatch"
                 /\ request.action = "transcribe"
                 /\ pc' = "t_load"
                 /\ last_activity' = now
        /\ (ipc' # ipc \/ pc \in SdSteps) => last_activity' = last_activity
      ]_vars

C33_Witness ==
    /\ pc = "t_load"
    /\ last_activity > 0
    /\ last_activity = now
    /\ linesRead = 2

\* C34: a host written as a non-canonical IPv4 encoding (2130706433,
\* 0x7f000001) is classified like its dotted form, without the resolver
\* being asked.
C34_EncodedLiteralClassifiedDirectly ==
    (/\ Validated
     /\ Plain(vurl)
     /\ ~vallowed.configured
     /\ vurl.host.form = "enc4")
        => /\ vresult.resolver = 0
           /\ vresult = validate_url(Url(vurl.scheme,
                                         [form |-> "v4", ip |-> vurl.host.ip],
                                         vurl.port),
                                     vallowed, vanswer)

\* C35: the idle checker neither sets running to false nor releases the
\* engine handle while a transcribe request is in flight, between the start
\* of transcribe_audio and its return.
C35_NoIdleShutdownDuringTranscribe ==
    [][ (ipc' # ipc /\ (running' # running \/ model' # model))
            => ~InTranscribe ]_vars

\* the address lies in none of the ranges the validator refuses
InNoRefusedRange(ip) ==
    /\ ~InLoopbackRange(ip)
    /\ ~InLinkLocalRange(ip)
    /\ ~InPrivateRange(ip)
    /\ ~InMulticastRange(ip)
    /\ ~Unsafe(ip)

\* the host of the URL is on the configured allowlist
OnAllowlist ==
    /\ vallowed.configured
    /\ Plain(vurl)
    /\ Allowlisted(HostText(hostname_of(urlparse(vurl))), vallowed.domains)

\* C36: with an allowlist configured a URL is accepted only if its host
\* matches the allowlist and its literal address, or every address the
\* resolver answers, is Public; an allowlisted host that is or resolves to
\* a loopback, link-local or private address is rejected.
C36_AllowlistNoBypass ==
    Validated =>
       /\ (vallowed.configured /\ vresult.outcome = "accept")
             => /\ OnAllowlist
                /\ is_ip_address(vurl.host) => InNoRefusedRange(vurl.host.ip)
                /\ ~is_ip_address(vurl.host)
                      => /\ vanswer.status = "ok"
                         /\ vresult.resolver = 1
                         /\ \A i \in 1..Len(vanswer.addrs) :
                               InNoRefusedRange(vanswer.addrs[i])
       /\ (/\ OnAllowlist
           /\ \/ /\ is_ip_address(vurl.host)
                 /\ ~InNoRefusedRange(vurl.host.ip)
              \/ /\ ~is_ip_address(vurl.host)
                 /\ vanswer.status = "ok"
                 /\ \E i \in 1..Len(vanswer.addrs) :
                       ~InNoRefusedRange(vanswer.addrs[i]))
             => /\ vresult.outcome = "SSRFError"
                /\ vresult.kind \in {"Loopback", "LinkLocal", "Private",
                                     "Multicast", "ResolvesToUnsafeAddress"}

C36_Witness ==
    /\ Validated
    /\ vallowed = Allowlist({NameCdn})
    /\ vurl.host = Name(NameCdn)
    /\ Plain(vurl)
    /\ vanswer = [status |-> "ok", addrs |-> <<V4(127, 0, 0, 1)>>]
    /\ vresult.outcome = "SSRFError"
    /\ vresult.kind = "ResolvesToUnsafeAddress"

(***************************************************************************)
(* Properties of the response (specification SpecReshape)                  *)
(***************************************************************************)
Reshaped == reshaped # NoReshape

\* the end of segment i of the engine result, 0 when it has none
EndOf(i) ==
    IF eresult.segments[i].hasEnd THEN eresult.segments[i].end ELSE 0

\* the words of segment i of the engine result, none when it has no list
WordsOf(i) ==
    IF eresult.segments[i].hasWords THEN eresult.segments[i].words ELSE <<>>

\* C32: in a success response duration is the sum of the segments' end
\* values (0 for a segment without end, 0 without segments),
\* word_timestamps is the concatenation of the segments' word lists in
\* segment order with the words of each segment in their order, and
\* segments is the engine's segment sequence unchanged.
C32_DurationAndWordsReshaped ==
    Reshaped =>
       LET n == IF eresult.hasSegments THEN Len(eresult.segments) ELSE 0
           total[i \in 0..n] == IF i = 0 THEN 0 ELSE total[i - 1] + EndOf(i)
           offset[i \in 0..n] ==
               IF i = 0 THEN 0 ELSE offset[i - 1] + Len(WordsOf(i))
       IN  /\ reshaped.success
           /\ reshaped.duration = total[n]
           /\ reshaped.segments
                 = (IF eresult.hasSegments THEN eresult.segments ELSE <<>>)
           /\ Len(reshaped.word_timestamps) = offset[n]
           /\ \A i \in 1..n : \A k \in 1..Len(WordsOf(i)) :
                 reshaped.word_timestamps[offset[i - 1] + k] = WordsOf(i)[k]

C32_Witness ==
    /\ Reshaped
    /\ Len(eresult.segments) = 2
    /\ eresult.segments[1].hasEnd /\ eresult.segments[1].end = 1
    /\ eresult.segments[2].hasEnd /\ eresult.segments[2].end = 2
    /\ reshaped.duration = 3
    /\ eresult.segments[1].words = <<"w2", "w1">>
    /\ eresult.segments[2].words = <<"w1">>
    /\ reshaped.word_timestamps = <<"w2", "w1", "w1">>

====
